---- MODULE Spec2Model ----
(***************************************************************************)
(* A model of mitmproxy/protocol/websockets.py: WebSocketsLayer.           *)
(*                                                                         *)
(* One session is one sequential flow (__call__): the handshake with the   *)
(* origin server, the 101 response to the client, then the relay loop.     *)
(* The flow is cut at its I/O calls, where the two peers and the owner of  *)
(* the shutdown flag can act in between.                                   *)
(***************************************************************************)
EXTENDS Integers, Sequences, FiniteSets, TLC

(***************************************************************************)
(* Bounds of the model.                                                    *)
(***************************************************************************)
\* frames the two peers put on the wire during one session
MaxFrames == 2
\* longest payload of the frames given to _handle_frame in SpecFrame
MaxPayload == 3

(***************************************************************************)
(* Python values that the code mixes in one variable (str / int / bytes)   *)
(* are tagged with their type.  None, where a string is expected          *)
(* otherwise, is the string "None" (what format() prints for it).         *)
(***************************************************************************)
None == "None"
PyStr(s) == <<"str", s>>
PyInt(n) == <<"int", n>>
PyBytes(b) == <<"bytes", b>>

\* local variable that has not been assigned yet
Unbound == "unbound"

(***************************************************************************)
(* The two connections.  conns = [client, server], in this order.          *)
(***************************************************************************)
client == "client"
server == "server"
conns == <<client, server>>
Conns == {client, server}

(***************************************************************************)
(* netlib.websockets: opcodes and the frame codec.                         *)
(***************************************************************************)
OPCODE_CONTINUE == 0
OPCODE_TEXT == 1
OPCODE_BINARY == 2
OPCODE_CLOSE == 8
OPCODE_PING == 9
OPCODE_PONG == 10

\* bytes(frame): FIN bit and opcode, payload length, payload
FrameBytes(f) ==
    <<f.header.fin * 128 + f.header.opcode, f.header.payload_length>>
        \o f.payload

\* Frame.from_file: one frame read from its wire form
FromFile(w) ==
    [header |-> [fin |-> w[1] \div 128,
                 opcode |-> w[1] % 16,
                 payload_length |-> w[2]],
     payload |-> SubSeq(w, 3, 2 + w[2])]

\* CLOSE_REASON.get_name(code, default)
CLOSE_REASON_get_name(code, default) ==
    CASE code = 1000 -> "NORMAL_CLOSURE"
      [] code = 1001 -> "GOING_AWAY"
      [] code = 1002 -> "PROTOCOL_ERROR"
      [] code = 1003 -> "UNSUPPORTED_DATA"
      [] code = 1004 -> "RESERVED"
      [] code = 1005 -> "RESERVED_NO_STATUS"
      [] code = 1006 -> "RESERVED_ABNORMAL_CLOSURE"
      [] code = 1007 -> "INVALID_PAYLOAD_DATA"
      [] code = 1008 -> "POLICY_VIOLATION"
      [] code = 1009 -> "MESSAGE_TOO_BIG"
      [] code = 1010 -> "MANDATORY_EXTENSION"
      [] code = 1011 -> "INTERNAL_ERROR"
      [] code = 1015 -> "RESERVED_TLS_HANDHSAKE_FAILED"
      [] OTHER -> default

(***************************************************************************)
(* The upgrade request and the origin server's response.                   *)
(***************************************************************************)
\* headers.get(name) of a header that is not present
Absent == None

\* websockets.get_client_key(self._request.headers)
client_key == "dGhlIHNhbXBsZSBub25jZQ=="

\* the accept token derived from a client key
create_server_nonce(key) == "accept(" \o key \o ")"

\* responses the origin server may answer with: status line and headers
ResponseHeaders ==
    [upgrade : {"websocket", Absent},
     connection : {"Upgrade", Absent},
     accept : {create_server_nonce(client_key), "accept(other)", Absent},
     protocol : {"chat", Absent},
     extensions : {Absent}]
Responses == [status_code : {101, 200}, headers : ResponseHeaders]

\* websockets.check_handshake(headers): it is given the headers only
check_handshake(headers) ==
    /\ headers.connection = "Upgrade"
    /\ headers.upgrade = "websocket"
    /\ headers.accept # Absent

get_server_accept(headers) == headers.accept
get_protocol(headers) == headers.protocol
get_extensions(headers) == headers.extensions

\* websockets.server_handshake_headers(client_key, protocol, extensions)
server_handshake_headers(key, protocol, extensions) ==
    [connection |-> "Upgrade",
     upgrade |-> "websocket",
     accept |-> create_server_nonce(key),
     protocol |-> protocol,
     extensions |-> extensions]

(***************************************************************************)
(* Exceptions.                                                             *)
(***************************************************************************)
\* except (socket.error, netlib.exceptions.TcpException, SSL.Error)
IOKinds == {"socket.error", "TcpException", "SSL.Error"}
\* any other subclass of Exception
OtherKinds == {"ValueError"}
ExcKinds == IOKinds \cup OtherKinds

NoExc == [type |-> "none", msg |-> "", cause |-> ""]
NoInfo == [kind |-> "none"]
NoFailure == [conn |-> "none", e |-> "none"]

VARIABLES
    pc,                 \* position of the flow in __call__
    response,           \* response read in _initiate_server_conn
    server_accept, server_protocol, server_extensions,
    sent,               \* sent[c]: what was written to connection c, in order
    inbox,              \* inbox[c]: frames on the wire from peer c, not yet read
    decoded,            \* decoded[c]: frames decoded from connection c, in order
    r,                  \* connections still to visit in "for conn in r"
    is_server,          \* the local of this name in __call__
    frame,              \* the frame being handled
    should_exit,        \* self.channel.should_exit
    exc,                \* exception that left __call__, NoExc if none
    info,               \* the info-level record logged at the end, if any
    failed,             \* what raised inside the try block: the connection
                        \* whose I/O raised and the exception, if any
    raised_in,          \* the call of the try block that raised, if any
    ready,              \* what the last ssl_read_select returned
    io                  \* the I/O calls of the handshake that returned, in order

vars == <<pc, response, server_accept, server_protocol, server_extensions,
          sent, inbox, decoded, r, is_server, frame, should_exit, exc, info,
          failed, raised_in, ready, io>>

NoFrame == [header |-> [fin |-> 0, opcode |-> 0, payload_length |-> 0],
            payload |-> <<>>]
NoResponse ==
    [status_code |-> 0,
     headers |-> [upgrade |-> Absent, connection |-> Absent,
                  accept |-> Absent, protocol |-> Absent,
                  extensions |-> Absent]]

\* __init__
Init ==
    /\ pc = "start"
    /\ response = NoResponse
    /\ server_accept = None
    /\ server_protocol = None
    /\ server_extensions = None
    /\ sent = [c \in Conns |-> <<>>]
    /\ inbox = [c \in Conns |-> <<>>]
    /\ decoded = [c \in Conns |-> <<>>]
    /\ r = <<>>
    /\ is_server = Unbound
    /\ frame = NoFrame
    /\ should_exit = FALSE
    /\ exc = NoExc
    /\ info = NoInfo
    /\ failed = NoFailure
    /\ raised_in = "none"
    /\ ready = <<>>
    /\ io = <<>>

(***************************************************************************)
(* How an exception leaves __call__.                                       *)
(***************************************************************************)
\* an exception raised outside the try block propagates unchanged
Propagate(e) ==
    /\ pc' = "done"
    /\ exc' = [type |-> e, msg |-> "", cause |-> ""]

\* variant: a single clause that treats every exception as a disconnect
ExceptClauses_swallow_all(e, side, is_srv) ==
    /\ pc' = "done"
    /\ failed' = [conn |-> side, e |-> e]
    /\ IF is_srv = Unbound
       THEN /\ exc' = [type |-> "UnboundLocalError",
                       msg |-> "is_server", cause |-> e]
            /\ info' = info
       ELSE /\ exc' = exc
            /\ info' = [kind |-> "closed unexpectedly",
                        by |-> IF is_srv = "True" THEN "server" ELSE "client",
                        e |-> e]

\* the two except clauses of the try block around the relay loop; side is
\* the connection whose read, write or wait raised e, is_srv the value of
\* the local is_server when the handler runs
ExceptClauses(e, side, is_srv) ==
    /\ pc' = "done"
    /\ failed' = [conn |-> side, e |-> e]
    /\ IF e \in IOKinds
       THEN IF is_srv = Unbound
            THEN \* the handler reads a local that was never assigned
                 /\ exc' = [type |-> "UnboundLocalError",
                            msg |-> "is_server", cause |-> e]
                 /\ info' = info
            ELSE /\ exc' = exc
                 /\ info' = [kind |-> "closed unexpectedly",
                             by |-> IF is_srv = "True"
                                    THEN "server" ELSE "client",
                             e |-> e]
       ELSE /\ exc' = [type |-> "ProtocolException",
                       msg |-> "Error in WebSockets connection",
                       cause |-> e]
            /\ info' = info

(***************************************************************************)
(* _initiate_server_conn                                                   *)
(***************************************************************************)
\* self.establish_server_connection(host, port, scheme)
EstablishServerConnection ==
    /\ pc = "start"
    /\ \/ /\ pc' = "send_request"
          /\ exc' = exc
       \/ \E e \in ExcKinds : Propagate(e)
    /\ UNCHANGED <<response, server_accept, server_protocol, server_extensions,
                   sent, inbox, decoded, r, is_server, frame, should_exit,
                   info, failed, raised_in, ready, io>>

\* variant: the request is written twice
SendRequest_twice ==
    /\ pc = "send_request"
    /\ \/ /\ sent' = [sent EXCEPT ![server] =
                          @ \o <<<<"request", client_key>>,
                                 <<"request", client_key>>>>]
          /\ io' = io \o <<<<"write", server>>, <<"write", server>>>>
          /\ pc' = "read_response"
          /\ exc' = exc
       \/ /\ \E e \in ExcKinds : Propagate(e)
          /\ UNCHANGED <<sent, io>>
    /\ UNCHANGED <<response, server_accept, server_protocol, server_extensions,
                   inbox, decoded, r, is_server, frame, should_exit, info,
                   failed, raised_in, ready>>

\* self.server_conn.send(assemble_request(self._request))
SendRequest ==
    /\ pc = "send_request"
    /\ \/ /\ sent' = [sent EXCEPT ![server] = Append(@, <<"request", client_key>>)]
          /\ io' = Append(io, <<"write", server>>)
          /\ pc' = "read_response"
          /\ exc' = exc
       \/ /\ \E e \in ExcKinds : Propagate(e)
          /\ UNCHANGED <<sent, io>>
    /\ UNCHANGED <<response, server_accept, server_protocol, server_extensions,
                   inbox, decoded, r, is_server, frame, should_exit, info,
                   failed, raised_in, ready>>

\* variant: the result of check_handshake is ignored
HandshakeFailed_ignored(resp) == FALSE

\* if not websockets.check_handshake(response.headers)
HandshakeFailed(resp) == ~ check_handshake(resp.headers)

\* response = read_response(...), the check of line 63 and the extraction of
\* the negotiated parameters
ReadResponse ==
    /\ pc = "read_response"
    /\ \/ \E resp \in Responses :
            /\ response' = resp
            /\ io' = Append(io, <<"read", server>>)
            /\ IF HandshakeFailed(resp)
               THEN /\ pc' = "done"
                    /\ exc' = [type |-> "ProtocolException",
                               msg |-> "Establishing WebSockets connection with server failed",
                               cause |-> ""]
                    /\ UNCHANGED <<server_accept, server_protocol,
                                   server_extensions>>
               ELSE /\ server_accept' = get_server_accept(resp.headers)
                    /\ server_protocol' = get_protocol(resp.headers)
                    /\ server_extensions' = get_extensions(resp.headers)
                    /\ pc' = "complete_handshake"
                    /\ exc' = exc
       \/ /\ \E e \in ExcKinds : Propagate(e)
          /\ UNCHANGED <<response, server_accept, server_protocol,
                         server_extensions, io>>
    /\ UNCHANGED <<sent, inbox, decoded, r, is_server, frame, should_exit,
                   info, failed, raised_in, ready>>

(***************************************************************************)
(* _complete_handshake                                                     *)
(***************************************************************************)
\* variant: a failed send_response is ignored and the relay starts
CompleteHandshake_send_unchecked ==
    /\ pc = "complete_handshake"
    /\ \/ /\ sent' = [sent EXCEPT ![client] =
                          Append(@, <<"response", 101,
                                      server_handshake_headers(client_key,
                                          server_protocol, server_extensions)>>)]
          /\ io' = Append(io, <<"write", client>>)
       \/ UNCHANGED <<sent, io>>
    /\ pc' = "while"
    /\ UNCHANGED <<response, server_accept, server_protocol, server_extensions,
                   inbox, decoded, r, is_server, frame, should_exit, info,
                   failed, raised_in, ready, exc>>

CompleteHandshake ==
    /\ pc = "complete_handshake"
    /\ \/ /\ sent' = [sent EXCEPT ![client] =
                          Append(@, <<"response", 101,
                                      server_handshake_headers(client_key,
                                          server_protocol, server_extensions)>>)]
          /\ io' = Append(io, <<"write", client>>)
          /\ pc' = "while"
          /\ exc' = exc
       \/ /\ \E e \in ExcKinds : Propagate(e)
          /\ UNCHANGED <<sent, io>>
    /\ UNCHANGED <<response, server_accept, server_protocol, server_extensions,
                   inbox, decoded, r, is_server, frame, should_exit, info,
                   failed, raised_in, ready>>

(***************************************************************************)
(* _handle_frame                                                           *)
(***************************************************************************)
\* variant: the two bytes are read in little-endian order
unpack_H_little_endian(b) == b[2] * 256 + b[1]

\* struct.unpack('!H', b): network byte order, unsigned 16 bit
unpack_H(b) == b[1] * 256 + b[2]

\* frame.header.opcode & 0x8
OpcodeAnd8(opcode) == ((opcode \div 8) % 2) * 8

\* lines 97-104: code, msg and reason of a CLOSE frame's payload
CloseCode(payload) ==
    IF Len(payload) >= 2
    THEN PyInt(unpack_H(SubSeq(payload, 1, 2)))
    ELSE PyStr("(status code missing)")

\* msg = None, line 98; assigned only for a payload of at least 2 bytes
CloseMsg(payload) ==
    IF Len(payload) >= 2
    THEN CLOSE_REASON_get_name(unpack_H(SubSeq(payload, 1, 2)),
                               "unknown status code")
    ELSE None

CloseReason(payload) ==
    IF Len(payload) > 2
    THEN PyBytes(SubSeq(payload, 3, Len(payload)))
    ELSE PyStr("(message missing)")

\* variant: the CLOSE branch returns without forwarding the frame
handle_frame_close_unsent(f) ==
    IF f.header.opcode = OPCODE_CLOSE
    THEN [send |-> <<>>,
          info |-> [kind |-> "closed",
                    code |-> CloseCode(f.payload),
                    msg |-> CloseMsg(f.payload),
                    reason |-> CloseReason(f.payload)],
          ret |-> FALSE]
    ELSE [send |-> <<FrameBytes(f)>>, info |-> NoInfo, ret |-> TRUE]

\* variant: a frame no branch recognises ends the relay (fail-closed)
handle_frame_reject_unknown(f) ==
    IF OpcodeAnd8(f.header.opcode) = 0
          \/ f.header.opcode \in {OPCODE_PING, OPCODE_PONG}
    THEN [send |-> <<FrameBytes(f)>>, info |-> NoInfo, ret |-> TRUE]
    ELSE IF f.header.opcode = OPCODE_CLOSE
    THEN [send |-> <<FrameBytes(f)>>,
          info |-> [kind |-> "closed",
                    code |-> CloseCode(f.payload),
                    msg |-> CloseMsg(f.payload),
                    reason |-> CloseReason(f.payload)],
          ret |-> FALSE]
    ELSE [send |-> <<>>, info |-> NoInfo, ret |-> FALSE]

\* variant: a PING is forwarded and then ends the relay like a CLOSE
handle_frame_stop_on_ping(f) ==
    IF f.header.opcode = OPCODE_CLOSE
    THEN [send |-> <<FrameBytes(f)>>,
          info |-> [kind |-> "closed",
                    code |-> CloseCode(f.payload),
                    msg |-> CloseMsg(f.payload),
                    reason |-> CloseReason(f.payload)],
          ret |-> FALSE]
    ELSE [send |-> <<FrameBytes(f)>>, info |-> NoInfo,
          ret |-> f.header.opcode # OPCODE_PING]

\* variant: a data frame is sent once more where the code only logs it
handle_frame_sends_twice(f) ==
    IF OpcodeAnd8(f.header.opcode) = 0
    THEN [send |-> <<FrameBytes(f), FrameBytes(f)>>, info |-> NoInfo,
          ret |-> TRUE]
    ELSE IF f.header.opcode = OPCODE_CLOSE
    THEN [send |-> <<FrameBytes(f)>>,
          info |-> [kind |-> "closed",
                    code |-> CloseCode(f.payload),
                    msg |-> CloseMsg(f.payload),
                    reason |-> CloseReason(f.payload)],
          ret |-> FALSE]
    ELSE [send |-> <<FrameBytes(f)>>, info |-> NoInfo, ret |-> TRUE]

\* variant: PING frames are swallowed instead of being passed through
handle_frame_drops_ping(f) ==
    IF f.header.opcode = OPCODE_CLOSE
    THEN [send |-> <<FrameBytes(f)>>,
          info |-> [kind |-> "closed",
                    code |-> CloseCode(f.payload),
                    msg |-> CloseMsg(f.payload),
                    reason |-> CloseReason(f.payload)],
          ret |-> FALSE]
    ELSE IF f.header.opcode = OPCODE_PING
    THEN [send |-> <<>>, info |-> NoInfo, ret |-> TRUE]
    ELSE [send |-> <<FrameBytes(f)>>, info |-> NoInfo, ret |-> TRUE]

\* variant: the CLOSE branch falls through to "continue the connection"
handle_frame_close_continues(f) ==
    IF f.header.opcode = OPCODE_CLOSE
    THEN [send |-> <<FrameBytes(f)>>,
          info |-> [kind |-> "closed",
                    code |-> CloseCode(f.payload),
                    msg |-> CloseMsg(f.payload),
                    reason |-> CloseReason(f.payload)],
          ret |-> TRUE]
    ELSE [send |-> <<FrameBytes(f)>>, info |-> NoInfo, ret |-> TRUE]

\* _handle_frame(frame, source_conn, other_conn, is_server) up to its
\* return: what it sends to other_conn, the info record it logs and the
\* value it returns
handle_frame(f) ==
    IF OpcodeAnd8(f.header.opcode) = 0
    THEN \* forward the data frame to the other side
         [send |-> <<FrameBytes(f)>>, info |-> NoInfo, ret |-> TRUE]
    ELSE IF f.header.opcode \in {OPCODE_PING, OPCODE_PONG}
    THEN \* just forward the ping/pong to the other side
         [send |-> <<FrameBytes(f)>>, info |-> NoInfo, ret |-> TRUE]
    ELSE IF f.header.opcode = OPCODE_CLOSE
    THEN [send |-> <<FrameBytes(f)>>,
          info |-> [kind |-> "closed",
                    code |-> CloseCode(f.payload),
                    msg |-> CloseMsg(f.payload),
                    reason |-> CloseReason(f.payload)],
          ret |-> FALSE]
    ELSE \* unknown frame - just forward it
         [send |-> <<FrameBytes(f)>>, info |-> NoInfo, ret |-> TRUE]

\* source_conn and other_conn of the current iteration
source_conn == IF is_server = "True" THEN server ELSE client
other_conn == IF is_server = "True" THEN client ELSE server

\* variant: the for loop is left after the first frame of an iteration
HandleFrame_breaks ==
    /\ pc = "handle"
    /\ LET h == handle_frame(frame) IN
       \/ /\ sent' = [sent EXCEPT ![other_conn] = @ \o
                          [i \in 1..Len(h.send) |-> <<"frame", h.send[i]>>]]
          /\ info' = h.info
          /\ pc' = IF h.ret THEN "while" ELSE "done"
          /\ UNCHANGED <<exc, failed, raised_in>>
       \/ /\ \E e \in ExcKinds : ExceptClauses(e, other_conn, is_server)
          /\ raised_in' = "send"
          /\ sent' = sent
    /\ UNCHANGED <<response, server_accept, server_protocol, server_extensions,
                   inbox, decoded, r, is_server, frame, should_exit, ready,
                   io>>

HandleFrame ==
    /\ pc = "handle"
    /\ LET h == handle_frame(frame) IN
       \/ /\ sent' = [sent EXCEPT ![other_conn] = @ \o
                          [i \in 1..Len(h.send) |-> <<"frame", h.send[i]>>]]
          /\ info' = h.info
          /\ pc' = IF h.ret THEN "for" ELSE "done"
          /\ UNCHANGED <<exc, failed, raised_in>>
       \/ \* other_conn.send raises
          /\ \E e \in ExcKinds : ExceptClauses(e, other_conn, is_server)
          /\ raised_in' = "send"
          /\ sent' = sent
    /\ UNCHANGED <<response, server_accept, server_protocol, server_extensions,
                   inbox, decoded, r, is_server, frame, should_exit, ready,
                   io>>

(***************************************************************************)
(* The relay loop of __call__                                              *)
(***************************************************************************)
\* variant: while True
WhileCheck_ignores_flag ==
    /\ pc = "while"
    /\ pc' = "select"
    /\ UNCHANGED <<response, server_accept, server_protocol, server_extensions,
                   sent, inbox, decoded, r, is_server, frame, should_exit,
                   exc, info, failed, raised_in, ready, io>>

\* while not self.channel.should_exit.is_set()
WhileCheck ==
    /\ pc = "while"
    /\ pc' = IF should_exit THEN "done" ELSE "select"
    /\ UNCHANGED <<response, server_accept, server_protocol, server_extensions,
                   sent, inbox, decoded, r, is_server, frame, should_exit,
                   exc, info, failed, raised_in, ready, io>>

\* the sub-sequences of conns
ReadyLists == {<<>>, <<client>>, <<server>>, conns}

\* r = tcp.ssl_read_select(conns, 1): the connections reported readable, in
\* the order of conns; empty after the timeout of one second.  A
\* connection is also readable when its peer has closed or reset it, or
\* when only a part of a frame has arrived on it.
Select ==
    /\ pc = "select"
    /\ \/ /\ r' \in ReadyLists
          /\ ready' = r'
          /\ pc' = "for"
          /\ UNCHANGED <<exc, info, failed, raised_in>>
       \/ /\ \E e \in ExcKinds, c \in Conns : ExceptClauses(e, c, is_server)
          /\ raised_in' = "select"
          /\ UNCHANGED <<r, ready>>
    /\ UNCHANGED <<response, server_accept, server_protocol, server_extensions,
                   sent, inbox, decoded, is_server, frame, should_exit, io>>

\* variant: the next readiness wait starts without polling the flag
ForEnd_skips_poll ==
    /\ pc = "for"
    /\ r = <<>>
    /\ pc' = "select"
    /\ UNCHANGED <<response, server_accept, server_protocol, server_extensions,
                   sent, inbox, decoded, r, is_server, frame, should_exit,
                   exc, info, failed, raised_in, ready, io>>

\* for conn in r: exhausted, back to the loop condition
ForEnd ==
    /\ pc = "for"
    /\ r = <<>>
    /\ pc' = "while"
    /\ UNCHANGED <<response, server_accept, server_protocol, server_extensions,
                   sent, inbox, decoded, r, is_server, frame, should_exit,
                   exc, info, failed, raised_in, ready, io>>

\* for conn in r: the iterator yields the next connection and lines 128-130
\* bind source_conn, other_conn and is_server to it
ForNext ==
    /\ pc = "for"
    /\ r # <<>>
    /\ is_server' = IF Head(r) = server THEN "True" ELSE "False"
    /\ r' = Tail(r)
    /\ pc' = "from_file"
    /\ UNCHANGED <<response, server_accept, server_protocol, server_extensions,
                   sent, inbox, decoded, frame, should_exit, exc, info,
                   failed, raised_in, ready, io>>

\* frame = Frame.from_file(source_conn.rfile), line 132: returns when a
\* whole frame has arrived on source_conn and waits until then, or raises
Decode ==
    /\ pc = "from_file"
    /\ \/ /\ inbox[source_conn] # <<>>
          /\ frame' = FromFile(Head(inbox[source_conn]))
          /\ inbox' = [inbox EXCEPT ![source_conn] = Tail(@)]
          /\ decoded' = [decoded EXCEPT ![source_conn] =
                             Append(@, FromFile(Head(inbox[source_conn])))]
          /\ pc' = "handle"
          /\ UNCHANGED <<exc, info, failed, raised_in>>
       \/ \* Frame.from_file raises
          /\ \E e \in ExcKinds : ExceptClauses(e, source_conn, is_server)
          /\ raised_in' = "decode"
          /\ UNCHANGED <<frame, inbox, decoded>>
    /\ UNCHANGED <<response, server_accept, server_protocol, server_extensions,
                   sent, r, is_server, should_exit, ready, io>>

(***************************************************************************)
(* The environment: the two peers and the owner of the shutdown flag.      *)
(***************************************************************************)
MkFrame(fin, opcode, payload) ==
    [header |-> [fin |-> fin, opcode |-> opcode,
                 payload_length |-> Len(payload)],
     payload |-> payload]

\* sequences over S of length at most n
SeqsUpTo(S, n) == UNION {[1..k -> S] : k \in 0..n}

\* frames the peers send during a session: TEXT, CLOSE, PING and a reserved
\* control opcode; 0x03 0xE8 is close code 1000
RelayOpcodes == {OPCODE_TEXT, OPCODE_CLOSE, OPCODE_PING, 11}
RelayPayloads == {<<>>, <<3, 232, 98>>}
RelayFrames == {MkFrame(1, o, p) : o \in RelayOpcodes, p \in RelayPayloads}

RelayPcs == {"while", "select", "for", "from_file", "handle"}

FramesOnWire ==
    Len(inbox[client]) + Len(inbox[server])
        + Len(decoded[client]) + Len(decoded[server])

\* peer c puts one more frame on the wire
PeerSend(c) ==
    /\ pc \in RelayPcs
    /\ FramesOnWire < MaxFrames
    /\ \E f \in RelayFrames :
          inbox' = [inbox EXCEPT ![c] = Append(@, FrameBytes(f))]
    /\ UNCHANGED <<pc, response, server_accept, server_protocol,
                   server_extensions, sent, decoded, r, is_server, frame,
                   should_exit, exc, info, failed, raised_in, ready, io>>

\* self.channel.should_exit.set(), by the proxy that owns the channel
SetShouldExit ==
    /\ pc \in RelayPcs
    /\ ~ should_exit
    /\ should_exit' = TRUE
    /\ UNCHANGED <<pc, response, server_accept, server_protocol,
                   server_extensions, sent, inbox, decoded, r, is_server,
                   frame, exc, info, failed, raised_in, ready, io>>

Next ==
    \/ EstablishServerConnection
    \/ SendRequest
    \/ ReadResponse
    \/ CompleteHandshake
    \/ WhileCheck
    \/ Select
    \/ ForEnd
    \/ ForNext
    \/ Decode
    \/ HandleFrame
    \/ \E c \in Conns : PeerSend(c)
    \/ SetShouldExit

Spec == Init /\ [][Next]_vars

(***************************************************************************)
(* _handle_frame on every frame: the session has completed its handshake   *)
(* and has just decoded its first frame, any frame of FrameInputs, from    *)
(* either connection.                                                      *)
(***************************************************************************)
FrameByteValues == {3, 232, 243}
FrameInputs ==
    {MkFrame(fin, o, p) : fin \in {0, 1}, o \in 0..15,
                          p \in SeqsUpTo(FrameByteValues, MaxPayload)}

\* the I/O calls of a handshake that succeeded
HandshakeIO == <<<<"write", server>>, <<"read", server>>, <<"write", client>>>>

OkResponse ==
    [status_code |-> 101,
     headers |-> [upgrade |-> "websocket", connection |-> "Upgrade",
                  accept |-> create_server_nonce(client_key),
                  protocol |-> Absent, extensions |-> Absent]]

InitFrame ==
    /\ pc = "handle"
    /\ response = OkResponse
    /\ server_accept = get_server_accept(OkResponse.headers)
    /\ server_protocol = get_protocol(OkResponse.headers)
    /\ server_extensions = get_extensions(OkResponse.headers)
    /\ \E f \in FrameInputs, src \in Conns :
          /\ frame = FromFile(FrameBytes(f))
          /\ ready = <<src>>
          /\ is_server = IF src = server THEN "True" ELSE "False"
          /\ decoded = [c \in Conns |->
                          IF c = src THEN <<FromFile(FrameBytes(f))>> ELSE <<>>]
    /\ sent = [c \in Conns |->
                 IF c = server
                 THEN <<<<"request", client_key>>>>
                 ELSE <<<<"response", 101,
                          server_handshake_headers(client_key,
                              get_protocol(OkResponse.headers),
                              get_extensions(OkResponse.headers))>>>>]
    /\ inbox = [c \in Conns |-> <<>>]
    /\ r = <<>>
    /\ should_exit = FALSE
    /\ exc = NoExc
    /\ info = NoInfo
    /\ failed = NoFailure
    /\ raised_in = "none"
    /\ io = HandshakeIO

NextFrame == HandleFrame

SpecFrame == InitFrame /\ [][NextFrame]_vars

(***************************************************************************)
(* Progress of the relay loop: the session has completed its handshake and *)
(* is about to evaluate the loop condition for the first time.  The thread *)
(* that runs __call__ keeps running, so every step of the loop that        *)
(* returns normally is taken when it stays possible; the peers, the proxy  *)
(* that sets the flag and the failures of the I/O calls owe nothing.       *)
(***************************************************************************)
MaxLiveFrames == 1

LiveFrames == {MkFrame(1, o, <<>>) : o \in {OPCODE_TEXT, OPCODE_CLOSE}}

InitRelay ==
    /\ pc = "while"
    /\ response = OkResponse
    /\ server_accept = get_server_accept(OkResponse.headers)
    /\ server_protocol = get_protocol(OkResponse.headers)
    /\ server_extensions = get_extensions(OkResponse.headers)
    /\ sent = [c \in Conns |->
                 IF c = server
                 THEN <<<<"request", client_key>>>>
                 ELSE <<<<"response", 101,
                          server_handshake_headers(client_key,
                              get_protocol(OkResponse.headers),
                              get_extensions(OkResponse.headers))>>>>]
    /\ inbox = [c \in Conns |-> <<>>]
    /\ decoded = [c \in Conns |-> <<>>]
    /\ r = <<>>
    /\ is_server = Unbound
    /\ frame = NoFrame
    /\ should_exit = FALSE
    /\ exc = NoExc
    /\ info = NoInfo
    /\ failed = NoFailure
    /\ raised_in = "none"
    /\ ready = <<>>
    /\ io = HandshakeIO

\* connection c has a whole frame waiting to be read
FramePending(c) == inbox[c] # <<>>

\* r = tcp.ssl_read_select(conns, 1): a connection with a whole frame
\* waiting is reported readable; one with only a part of a frame may be
SelectLive ==
    /\ Select
    /\ pc' = "for" => \A c \in Conns :
                         FramePending(c) => \E i \in 1..Len(r') : r'[i] = c

\* peer c puts one more frame of LiveFrames on the wire
PeerSendLive(c) ==
    /\ FramesOnWire < MaxLiveFrames
    /\ PeerSend(c)
    /\ \E f \in LiveFrames : inbox'[c][Len(inbox'[c])] = FrameBytes(f)

\* Frame.from_file has been called on the connection at the head of r and
\* waits for the rest of a frame
DecodeWaiting(c) == pc = "from_file" /\ source_conn = c /\ inbox[c] = <<>>

\* a step of the thread that returns normally
Flow ==
    /\ WhileCheck \/ SelectLive \/ ForEnd \/ ForNext \/ Decode \/ HandleFrame
    /\ failed' = NoFailure

NextLive ==
    \/ WhileCheck
    \/ SelectLive
    \/ ForEnd
    \/ ForNext
    \/ Decode
    \/ HandleFrame
    \/ \E c \in Conns : PeerSendLive(c)
    \/ SetShouldExit

SpecLive == InitRelay /\ [][NextLive]_vars /\ WF_vars(Flow)

(***************************************************************************)
(* Properties                                                              *)
(***************************************************************************)
Other(c) == IF c = client THEN server ELSE client
Last(q) == q[Len(q)]

\* the frames written to connection c, without the handshake messages
FramesSent(c) == SelectSeq(sent[c], LAMBDA m : m[1] = "frame")

\* the headers of a response satisfy the upgrade contract
ValidHandshakeHeaders(h) ==
    h.connection = "Upgrade" /\ h.upgrade = "websocket" /\ h.accept # Absent

\* C1: when the origin server's response fails the validation of
\* _initiate_server_conn, __call__ raises ProtocolException, nothing has
\* been written to the client connection and no frame has been decoded or
\* forwarded; the session is over, so none ever will be.
C1_InvalidHandshakeAborts ==
    (response # NoResponse /\ ~ ValidHandshakeHeaders(response.headers))
        => /\ pc = "done"
           /\ exc.type = "ProtocolException"
           /\ exc.msg = "Establishing WebSockets connection with server failed"
           /\ sent[client] = <<>>
           /\ FramesSent(server) = <<>>
           /\ decoded[client] = <<>> /\ decoded[server] = <<>>

C1_Witness ==
    /\ response # NoResponse
    /\ response.status_code = 101
    /\ response.headers.accept = Absent
    /\ pc = "done"
    /\ exc.type = "ProtocolException"

\* C2 (as claimed): whenever the origin's response has a status other than
\* 101, whatever its headers, the handshake fails with ProtocolException,
\* nothing is sent to the client and the relay loop is never entered.
C2_Non101AlwaysFails ==
    (response # NoResponse /\ response.status_code # 101)
        => /\ pc = "done"
           /\ exc.type = "ProtocolException"
           /\ sent[client] = <<>>

\* C3: the relay loop never ends because of a CLOSE frame that was not
\* relayed first: once the session is over, a CLOSE frame decoded from
\* connection c is the last frame written to the opposite connection,
\* unless that very write raised (and the loop ended by the exception).
C3_CloseForwardedBeforeEnd ==
    \A c \in Conns : \A i \in DOMAIN decoded[c] :
        (pc = "done" /\ decoded[c][i].header.opcode = OPCODE_CLOSE)
            => \/ failed.conn = Other(c)
               \/ /\ FramesSent(Other(c)) # <<>>
                  /\ Last(FramesSent(Other(c)))
                        = <<"frame", FrameBytes(decoded[c][i])>>
                  /\ info.kind = "closed"

C3_Witness ==
    /\ pc = "done"
    /\ info.kind = "closed"
    /\ decoded[server] # <<>>
    /\ Last(decoded[server]).header.opcode = OPCODE_CLOSE
    /\ FramesSent(client) # <<>>
    /\ Last(FramesSent(client)) = <<"frame", FrameBytes(Last(decoded[server]))>>

\* C4: for a decoded frame whose opcode is not CLOSE, a _handle_frame in
\* which no send raises writes exactly that frame, unchanged, to the
\* opposite connection, nothing to the source connection, logs no close,
\* and the loop goes on to the next connection of the iteration.
C4_NonCloseForwardedAndContinue ==
    [][(pc = "handle" /\ pc' # "handle"
            /\ frame.header.opcode # OPCODE_CLOSE /\ failed' = NoFailure)
        => /\ pc' = "for"
           /\ sent'[other_conn]
                = Append(sent[other_conn], <<"frame", FrameBytes(frame)>>)
           /\ FromFile(Last(sent'[other_conn])[2]) = frame
           /\ sent'[source_conn] = sent[source_conn]
           /\ info' = NoInfo /\ exc' = NoExc]_vars

C4_Witness ==
    /\ pc = "for"
    /\ frame.header.opcode = 11
    /\ frame.payload # <<>>
    /\ Last(sent[other_conn]) = <<"frame", FrameBytes(frame)>>

\* C5: for a CLOSE frame with a payload of 0 or 1 bytes, the
\* reported status code and status name are both "(status code missing)"
\* and no payload bytes are reported as the reason.
C5_ShortCloseAsClaimed ==
    (info.kind = "closed" /\ Len(frame.payload) <= 1)
        => /\ info.code = PyStr("(status code missing)")
           /\ info.msg = "(status code missing)"
           /\ info.reason[1] # "bytes"

\* C6: for a CLOSE frame with a payload of at least 2 bytes, the reported
\* code is the big-endian unsigned 16-bit value of the first two bytes, the
\* name is the table entry of that code or "unknown status code", and the
\* reason is "(message missing)" for exactly 2 bytes and the bytes after
\* the first two otherwise.
C6_CloseInfoDecoded ==
    (info.kind = "closed" /\ Len(frame.payload) >= 2)
        => LET code == frame.payload[1] * 256 + frame.payload[2] IN
           /\ code \in 0..65535
           /\ info.code = PyInt(code)
           /\ info.msg = CLOSE_REASON_get_name(code, "unknown status code")
           /\ (frame.payload[1] = 3 /\ frame.payload[2] = 232
                  => info.code = PyInt(1000) /\ info.msg = "NORMAL_CLOSURE")
           /\ (frame.payload[1] = 232 /\ frame.payload[2] = 3
                  => info.msg = "unknown status code")
           /\ (Len(frame.payload) = 2
                  => info.reason = PyStr("(message missing)"))
           /\ (Len(frame.payload) > 2
                  => info.reason
                       = PyBytes(SubSeq(frame.payload, 3, Len(frame.payload))))

C6_Witness ==
    /\ pc = "done"
    /\ info.kind = "closed"
    /\ frame.payload = <<3, 232, 243>>
    /\ info.code = PyInt(1000)
    /\ info.reason = PyBytes(<<243>>)

\* C7 (as claimed): an I/O, TLS or transport exception raised in the relay
\* loop, at any iteration, ends the session without an exception leaving
\* __call__.
C7_IOErrorNeverPropagates ==
    (pc = "done" /\ failed.e \in IOKinds) => exc = NoExc

\* C8 (as claimed): the side named in the disconnect report is the side of
\* the connection whose read or write raised.
C8_ReportNamesFailedSide ==
    info.kind = "closed unexpectedly" => info.by = failed.conn

\* C9: an exception raised in the relay loop that is not an I/O, TLS or
\* transport exception leaves __call__ as one ProtocolException that
\* describes it; nothing is reported as a disconnect.
C9_OtherErrorsWrapped ==
    (pc = "done" /\ failed.e \in OtherKinds)
        => /\ exc.type = "ProtocolException"
           /\ exc.msg = "Error in WebSockets connection"
           /\ exc.cause = failed.e
           /\ info.kind # "closed unexpectedly"

C9_Witness ==
    /\ pc = "done"
    /\ failed.e = "ValueError"
    /\ failed.conn = client
    /\ decoded[server] # <<>>
    /\ exc.type = "ProtocolException"

\* C10: when the loop condition finds should_exit set, __call__ returns
\* without raising and without another readiness wait, decode or send; once
\* __call__ is over nothing more is read, written or logged.
C10_ShutdownExitsCleanly ==
    [][/\ (pc = "while" /\ should_exit /\ pc' # pc)
            => /\ pc' = "done"
               /\ exc' = NoExc
               /\ UNCHANGED <<sent, inbox, decoded, r, frame, info, failed>>
       /\ (pc = "done" => UNCHANGED vars)]_vars

C10_Witness ==
    /\ pc = "done"
    /\ should_exit
    /\ exc = NoExc
    /\ info = NoInfo
    /\ failed = NoFailure
    /\ inbox[server] # <<>>

\* the handshake has succeeded: its three I/O calls have returned
HandshakeDone == io = HandshakeIO

\* C11: the relay loop is entered, and a frame decoded or forwarded, only
\* after the origin's response has passed the validation and the 101
\* response has been written to the client.
C11_RelayOnlyAfterHandshake ==
    (pc \in RelayPcs
        \/ decoded[client] # <<>> \/ decoded[server] # <<>>
        \/ FramesSent(client) # <<>> \/ FramesSent(server) # <<>>
        \/ ready # <<>> \/ raised_in # "none")
        => /\ response # NoResponse
           /\ ValidHandshakeHeaders(response.headers)
           /\ sent[client] # <<>>
           /\ Head(sent[client])[1] = "response"
           /\ Head(sent[client])[2] = 101

C11_Witness ==
    /\ pc = "handle"
    /\ decoded[client] # <<>>
    /\ ValidHandshakeHeaders(response.headers)
    /\ Head(sent[client])[2] = 101

\* C12 (as claimed): a session that entered the relay loop is over only
\* because a CLOSE frame was processed, because an I/O, TLS or transport
\* exception escaped the frame decode or the readiness wait, or because
\* the shutdown flag was found set by the loop condition.
C12_ThreeCausesAsClaimed ==
    (pc = "done" /\ HandshakeDone)
        => \/ info.kind = "closed"
           \/ failed.e \in IOKinds /\ raised_in \in {"decode", "select"}
           \/ should_exit /\ failed = NoFailure /\ info = NoInfo

\* C12 (amended): such a session is over only because a CLOSE frame was
\* processed, because an exception was raised by the readiness wait, the
\* frame decode or the forwarding send (an I/O, TLS or transport exception
\* or any other one), or because the shutdown flag was found set by the
\* loop condition.
C12_EndCauses ==
    (pc = "done" /\ HandshakeDone)
        => \/ /\ info.kind = "closed"
              /\ frame.header.opcode = OPCODE_CLOSE
              /\ failed = NoFailure
           \/ /\ failed.e \in ExcKinds
              /\ raised_in \in {"decode", "select", "send"}
           \/ should_exit /\ failed = NoFailure /\ info = NoInfo

C12_Witness ==
    /\ pc = "done"
    /\ HandshakeDone
    /\ raised_in = "send"
    /\ failed.e = "TcpException"
    /\ info.kind = "closed unexpectedly"
    /\ ~ should_exit

\* C13 (as claimed): the Sec-WebSocket-Accept of the 101 response written
\* to the client is the accept value extracted from the origin's response.
C13_AcceptIsServerAccept ==
    sent[client] # <<>>
        => /\ Head(sent[client])[3].accept = server_accept
           /\ Head(sent[client])[3].accept = response.headers.accept

\* C14 (as claimed): an iteration whose readiness wait reported both
\* connections ends, when nothing raises, only after a frame of each
\* connection has been decoded and handled, whatever the first frame is.
C14_BothHandledAsClaimed ==
    [][(ready = conns /\ pc \in {"for", "from_file", "handle"}
            /\ pc' \in {"while", "done"} /\ failed' = NoFailure)
        => /\ r = <<>>
           /\ is_server = "True"
           /\ Len(decoded'[client]) >= 1 /\ Len(decoded'[server]) >= 1]_vars

\* C14 (amended): the same, unless the frame handled first, the client's,
\* is a CLOSE frame: then the loop returns and the server connection is
\* not read in that iteration.
C14_BothHandledUnlessClose ==
    [][(ready = conns /\ pc \in {"for", "from_file", "handle"}
            /\ pc' \in {"while", "done"} /\ failed' = NoFailure
            /\ ~ (pc = "handle" /\ is_server = "False"
                     /\ frame.header.opcode = OPCODE_CLOSE))
        => /\ r = <<>>
           /\ is_server = "True"
           /\ Len(decoded'[client]) >= 1 /\ Len(decoded'[server]) >= 1
           /\ Len(FramesSent(client)') >= 1 /\ Len(FramesSent(server)') >= 1]_vars

C14_Witness ==
    /\ ready = conns
    /\ pc = "for"
    /\ r = <<>>
    /\ Len(decoded[client]) = 1 /\ Len(decoded[server]) = 1
    /\ decoded[client][1].header.opcode = OPCODE_PING
    /\ Len(FramesSent(client)) = 1 /\ Len(FramesSent(server)) = 1

\* the handshake messages written to connection c
HandshakeSent(c) == SelectSeq(sent[c], LAMBDA m : m[1] # "frame")

\* C17: the I/O calls of the handshake happen in the order write to the
\* server, read from the server, write to the client, each at most once;
\* a handshake that succeeded has made each exactly once: one request to
\* the server, one response read and validated, one 101 response to the
\* client, and nothing reaches the client before the read.
C17_HandshakeIOInOrder ==
    /\ \E k \in 0..Len(HandshakeIO) : io = SubSeq(HandshakeIO, 1, k)
    /\ Len(HandshakeSent(server)) = (IF Len(io) >= 1 THEN 1 ELSE 0)
    /\ (response # NoResponse) = (Len(io) >= 2)
    /\ Len(HandshakeSent(client)) = (IF Len(io) >= 3 THEN 1 ELSE 0)
    /\ (pc \in RelayPcs \/ sent[client] # <<>>)
          => /\ io = HandshakeIO
             /\ Head(sent[server]) = <<"request", client_key>>
             /\ ValidHandshakeHeaders(response.headers)
             /\ Head(sent[client])[1] = "response"
             /\ Head(sent[client])[2] = 101

C17_Witness ==
    /\ pc = "while"
    /\ io = HandshakeIO
    /\ sent[server] = <<<<"request", client_key>>>>
    /\ Len(sent[client]) = 1
    /\ response.headers.protocol = "chat"

\* C18: the frames written to a connection are never more than the frames
\* decoded from the opposite one; they are as many whenever no frame is
\* being handled and no send has raised, and one fewer for the source of
\* the frame being handled.
C18_SentCountsMatchDecoded ==
    \A c \in Conns :
        /\ Len(FramesSent(Other(c))) <= Len(decoded[c])
        /\ (pc # "handle" /\ raised_in # "send")
              => Len(FramesSent(Other(c))) = Len(decoded[c])
        /\ (pc = "handle")
              => Len(FramesSent(Other(c)))
                   = Len(decoded[c]) - (IF c = source_conn THEN 1 ELSE 0)

C18_Witness ==
    /\ pc = "while"
    /\ Len(decoded[client]) = 1 /\ Len(FramesSent(server)) = 1
    /\ Len(decoded[server]) = 1 /\ Len(FramesSent(client)) = 1

\* C19: per direction, the frames written are a prefix of the frames
\* decoded, in the same order and with the same bytes.
C19_SentIsPrefixOfDecoded ==
    \A c \in Conns :
        /\ Len(FramesSent(Other(c))) <= Len(decoded[c])
        /\ \A i \in 1..Len(FramesSent(Other(c))) :
              /\ i <= Len(decoded[c])
              /\ FramesSent(Other(c))[i] = <<"frame", FrameBytes(decoded[c][i])>>

C19_Witness ==
    /\ Len(decoded[client]) = 2
    /\ decoded[client][1].header.opcode = OPCODE_PING
    /\ decoded[client][2].header.opcode = OPCODE_TEXT
    /\ FramesSent(server) = <<<<"frame", FrameBytes(decoded[client][1])>>,
                              <<"frame", FrameBytes(decoded[client][2])>>>>

\* CLOSE frames among the frames decoded and among the frames written
ClosesDecoded(c) ==
    Len(SelectSeq(decoded[c], LAMBDA f : f.header.opcode = OPCODE_CLOSE))
ClosesSent(c) ==
    Len(SelectSeq(FramesSent(c), LAMBDA m : m[2][1] % 16 = OPCODE_CLOSE))

\* C20: at most one CLOSE frame is decoded and at most one forwarded in a
\* session; once it has been handled the session is over and nothing more
\* is read, decoded or written, whatever is pending on a connection.
C20_NothingAfterClose ==
    [][/\ (ClosesDecoded(client) + ClosesDecoded(server) <= 1)'
       /\ (ClosesSent(client) + ClosesSent(server) <= 1)'
       /\ (ClosesDecoded(client) + ClosesDecoded(server) = 1
              => \/ pc = "done"
                 \/ /\ pc = "handle"
                    /\ frame.header.opcode = OPCODE_CLOSE
                    /\ Last(decoded[source_conn]) = frame)'
       /\ (info.kind = "closed" => pc = "done")'
       /\ (info.kind = "closed" => UNCHANGED vars)]_vars

C20_Witness ==
    /\ pc = "done"
    /\ info.kind = "closed"
    /\ is_server = "False"
    /\ ClosesSent(server) = 1
    /\ inbox[server] # <<>>
    /\ Head(inbox[server])[1] % 16 = OPCODE_CLOSE
    /\ FramesSent(client) = <<>>

\* C15: a frame decode that waits on one connection never blocks the other
\* direction: whenever a whole frame is waiting on connection c while the
\* decode on the other connection waits for the rest of a frame, that frame
\* is eventually decoded and forwarded, unless the session ends first.
C15_NoCrossBlocking ==
    \A c \in Conns : \A n \in 0..MaxLiveFrames :
        (DecodeWaiting(Other(c)) /\ FramePending(c) /\ Len(decoded[c]) = n)
            ~> (pc = "done"
                  \/ (Len(decoded[c]) > n /\ Len(FramesSent(Other(c))) > n))

\* C16: when the shutdown flag is set and no frame decode waits forever,
\* the relay loop eventually returns.
C16_ShutdownEventuallyReturns ==
    ([]<>(\A c \in Conns : ~ DecodeWaiting(c)))
        => (should_exit ~> pc = "done")

C16_Witness ==
    /\ pc = "done"
    /\ should_exit
    /\ failed = NoFailure
    /\ info = NoInfo
    /\ ready = <<server>>
    /\ Len(FramesSent(client)) = 1

====
